---------------------------- MODULE Spec2Model ----------------------------
(* Model of function_app.py: an Azure Function with three HTTP endpoints   *)
(* (/, /health, /search) in front of a Qdrant sparse-vector search.        *)
(* Text is modelled as sequences of one-character strings so that          *)
(* formatting (f"error: {e}") and parsing (int(top_k)) are computed.       *)
EXTENDS Integers, Sequences, FiniteSets, TLC

\* vectorizer: the module-level vectorizer (None after a failed load)
\* client:     the Qdrant service behind the module-level client handle
\* req, resp:  the last request handled and the response it got
\* calls:      the calls its handler made, in order, with their outcomes
VARIABLES vectorizer, client, req, resp, calls

vars == <<vectorizer, client, req, resp, calls>>

(* ------------------------------ bounds -------------------------------- *)
\* Largest number of points of the collection that match a query.
MaxHits == 2

(* --------------------------- Python values ---------------------------- *)
\* A Python / JSON value: t is the type tag, s the text of a str, n the
\* number of an int or bool, or the tenths of a finite float.
Val(t, s, n) == [t |-> t, s |-> s, n |-> n]
None == Val("NoneType", <<>>, 0)
Str(s) == Val("str", s, 0)
IntV(n) == Val("int", <<>>, n)
BoolV(b) == Val("bool", <<>>, IF b THEN 1 ELSE 0)
FloatV(tenths) == Val("float", <<>>, tenths)
NaN == Val("float_nan", <<>>, 0)
Infinity == Val("float_inf", <<>>, 0)
ListV(n) == Val("list", <<>>, n)
DictV(n) == Val("dict", <<>>, n)
\* A key that a JSON object does not hold.
Absent == Val("absent", <<>>, 0)

Exc(type, msg) == [type |-> type, msg |-> msg]
Raise(e) == [ok |-> FALSE, exc |-> e]
Return(v) == [ok |-> TRUE, val |-> v]

\* str(e)
StrOfExc(e) == e.msg

(* ------------------------------- text --------------------------------- *)
Digits == <<"0", "1", "2", "3", "4", "5", "6", "7", "8", "9">>
IsDigit(c) == \E i \in 1..10 : Digits[i] = c
DigitVal(c) == (CHOOSE i \in 1..10 : Digits[i] = c) - 1
IsSpace(c) == c \in {" ", "\t", "\n"}

RECURSIVE LStrip(_)
LStrip(s) == IF s # <<>> /\ IsSpace(Head(s)) THEN LStrip(Tail(s)) ELSE s
RECURSIVE RStrip(_)
RStrip(s) ==
  IF s # <<>> /\ IsSpace(s[Len(s)]) THEN RStrip(SubSeq(s, 1, Len(s) - 1)) ELSE s
Strip(s) == RStrip(LStrip(s))

StartsWith(s, p) == Len(s) >= Len(p) /\ SubSeq(s, 1, Len(p)) = p
Contains(s, p) ==
  \E i \in 0..(Len(s) - Len(p)) : SubSeq(s, i + 1, i + Len(p)) = p

UpperCase ==
  <<"A", "B", "C", "D", "E", "F", "G", "H", "I", "J", "K", "L", "M", "N",
      "O", "P", "Q", "R", "S", "T", "U", "V", "W", "X", "Y", "Z">>
LowerCase ==
  <<"a", "b", "c", "d", "e", "f", "g", "h", "i", "j", "k", "l", "m", "n",
      "o", "p", "q", "r", "s", "t", "u", "v", "w", "x", "y", "z">>
LowerChar(c) ==
  IF \E i \in 1..Len(UpperCase) : UpperCase[i] = c
  THEN LowerCase[CHOOSE i \in 1..Len(UpperCase) : UpperCase[i] = c]
  ELSE c
Lower(s) == [i \in 1..Len(s) |-> LowerChar(s[i])]

(* ---------------------------- constants ------------------------------- *)
QDRANT_URL == <<"h", "t", "t", "p", ":", "/", "/", "1", "2", "7", ".", "0",
    ".", "0", ".", "1", ":", "6", "3", "3", "3">>
COLLECTION == <<"c", "o", "d", "e", "_", "k", "n", "o", "w", "l", "e", "d",
    "g", "e">>
DefaultTopK == 5

MsgVectorizerNotLoaded ==
  <<"V", "e", "c", "t", "o", "r", "i", "z", "e", "r", " ", "n", "o", "t",
      " ", "l", "o", "a", "d", "e", "d", ".", " ", "C", "h", "e", "c", "k",
      " ", "V", "E", "C", "T", "O", "R", "I", "Z", "E", "R", "_", "P", "A",
      "T", "H", " ", "a", "n", "d", " ", "d", "e", "p", "l", "o", "y", "m",
      "e", "n", "t", " ", "f", "i", "l", "e", "s", ".">>
MsgMissingQuery == <<"M", "i", "s", "s", "i", "n", "g", " ", "'", "q", "u",
    "e", "r", "y", "'", " ", "p", "a", "r", "a", "m", "e", "t", "e", "r">>
MsgNoGet(t) == <<"'">> \o t \o <<"'", " ", "o", "b", "j", "e", "c", "t",
    " ", "h", "a", "s", " ", "n", "o", " ", "a", "t", "t", "r", "i", "b",
    "u", "t", "e", " ", "'", "g", "e", "t", "'">>
MsgNoTransform == <<"'", "N", "o", "n", "e", "T", "y", "p", "e", "'", " ",
    "o", "b", "j", "e", "c", "t", " ", "h", "a", "s", " ", "n", "o", " ",
    "a", "t", "t", "r", "i", "b", "u", "t", "e", " ", "'", "t", "r", "a",
    "n", "s", "f", "o", "r", "m", "'">>
MsgNoLower(t) == <<"'">> \o t \o <<"'", " ", "o", "b", "j", "e", "c", "t",
    " ", "h", "a", "s", " ", "n", "o", " ", "a", "t", "t", "r", "i", "b",
    "u", "t", "e", " ", "'", "l", "o", "w", "e", "r", "'">>
MsgOverflow == <<"c", "a", "n", "n", "o", "t", " ", "c", "o", "n", "v",
    "e", "r", "t", " ", "f", "l", "o", "a", "t", " ", "i", "n", "f", "i",
    "n", "i", "t", "y", " ", "t", "o", " ", "i", "n", "t", "e", "g", "e",
    "r">>
MsgNotFitted == <<"i", "d", "f", " ", "v", "e", "c", "t", "o", "r", " ",
    "i", "s", " ", "n", "o", "t", " ", "f", "i", "t", "t", "e", "d">>
MsgRefused == <<"C", "o", "n", "n", "e", "c", "t", "i", "o", "n", " ", "r",
    "e", "f", "u", "s", "e", "d">>
MsgBadLimit == <<"U", "n", "e", "x", "p", "e", "c", "t", "e", "d", " ",
    "R", "e", "s", "p", "o", "n", "s", "e", ":", " ", "4", "2", "2">>
ErrorPrefix == <<"e", "r", "r", "o", "r", ":", " ">>
Connected == <<"c", "o", "n", "n", "e", "c", "t", "e", "d">>
TypeName(t) ==
  CASE t = "NoneType" -> <<"N", "o", "n", "e", "T", "y", "p", "e">>
    [] t = "str" -> <<"s", "t", "r">>
    [] t = "int" -> <<"i", "n", "t">>
    [] t = "bool" -> <<"b", "o", "o", "l">>
    [] t = "list" -> <<"l", "i", "s", "t">>
    [] t = "dict" -> <<"d", "i", "c", "t">>
    [] OTHER -> <<"f", "l", "o", "a", "t">>

(* ------------------------- int() and truthiness ----------------------- *)
\* Python's decimal literal rule: digits, single underscores between them.
ValidDigits(s) ==
  /\ s # <<>>
  /\ IsDigit(s[1]) /\ IsDigit(s[Len(s)])
  /\ \A i \in 1..Len(s) : IsDigit(s[i]) \/ s[i] = "_"
  /\ \A i \in 1..(Len(s) - 1) : ~(s[i] = "_" /\ s[i + 1] = "_")

RECURSIVE DigitsValue(_, _)
DigitsValue(s, acc) ==
  IF s = <<>> THEN acc
  ELSE IF Head(s) = "_" THEN DigitsValue(Tail(s), acc)
  ELSE DigitsValue(Tail(s), 10 * acc + DigitVal(Head(s)))

MsgInvalidLiteral == <<"i", "n", "v", "a", "l", "i", "d", " ", "l", "i",
    "t", "e", "r", "a", "l", " ", "f", "o", "r", " ", "i", "n", "t", "(",
    ")", " ", "w", "i", "t", "h", " ", "b", "a", "s", "e", " ", "1", "0">>
MsgNaN == <<"c", "a", "n", "n", "o", "t", " ", "c", "o", "n", "v", "e",
    "r", "t", " ", "f", "l", "o", "a", "t", " ", "N", "a", "N", " ", "t",
    "o", " ", "i", "n", "t", "e", "g", "e", "r">>
MsgIntArgument == <<"i", "n", "t", "(", ")", " ", "a", "r", "g", "u", "m",
    "e", "n", "t", " ", "m", "u", "s", "t", " ", "b", "e", " ", "a", " ",
    "s", "t", "r", "i", "n", "g", ",", " ", "a", " ", "b", "y", "t", "e",
    "s", "-", "l", "i", "k", "e", " ", "o", "b", "j", "e", "c", "t", " ",
    "o", "r", " ", "a", " ", "r", "e", "a", "l", " ", "n", "u", "m", "b",
    "e", "r">>

\* int(s) for a str s: surrounding whitespace, an optional sign, digits.
IntOfStr(s) ==
  LET b == Strip(s)
      signed == b # <<>> /\ Head(b) \in {"+", "-"}
      d == IF signed THEN Tail(b) ELSE b
      m == DigitsValue(d, 0)
  IN IF ValidDigits(d)
     THEN Return(IF signed /\ Head(b) = "-" THEN 0 - m ELSE m)
     ELSE Raise(Exc("ValueError", MsgInvalidLiteral))

\* int(x) for a float x given in tenths: truncation toward zero.
Trunc(tenths) ==
  IF tenths >= 0 THEN tenths \div 10 ELSE 0 - ((0 - tenths) \div 10)

\* int(v)
PyInt(v) ==
  CASE v.t \in {"int", "bool"} -> Return(v.n)
    [] v.t = "float" -> Return(Trunc(v.n))
    [] v.t = "float_nan" -> Raise(Exc("ValueError", MsgNaN))
    [] v.t = "float_inf" -> Raise(Exc("OverflowError", MsgOverflow))
    [] v.t = "str" -> IntOfStr(v.s)
    [] OTHER -> Raise(Exc("TypeError", MsgIntArgument))

\* bool(v): the truth value `not query` negates.
Truthy(v) ==
  CASE v.t = "NoneType" -> FALSE
    [] v.t = "str" -> v.s # <<>>
    [] v.t \in {"int", "bool", "float", "list", "dict"} -> v.n # 0
    [] OTHER -> TRUE

(* ------------------------------ startup ------------------------------- *)
\* What pickle.load can leave in `vectorizer`: a fitted TfidfVectorizer, an
\* object whose transform raises (not fitted), one that accepts any input
\* (custom preprocessor), or None after a failed load.
Tfidf == [kind |-> "tfidf"]
Unfitted == [kind |-> "unfitted"]
Lenient == [kind |-> "lenient"]
Vectorizers == {None, Tfidf, Unfitted, Lenient}

\* The Qdrant service behind the client handle: reachable or not, the
\* number of points matching a query, and whether it rejects limit = 0.
ClientStates ==
  [fault : {"ok", "refused"}, hits : 0..MaxHits, strict : BOOLEAN]

(* ----------------------------- search_tfidf --------------------------- *)
\* vectorizer.transform([query]).tocoo() as a SparseVector: index and value
\* sequences of equal length.
Transform(v, query) ==
  IF v = None THEN Raise(Exc("AttributeError", MsgNoTransform))
  ELSE IF v.kind = "unfitted" THEN Raise(Exc("NotFittedError", MsgNotFitted))
  ELSE IF v.kind = "tfidf" /\ query.t # "str"
    THEN Raise(Exc("AttributeError", MsgNoLower(TypeName(query.t))))
  ELSE Return([indices |-> [i \in 1..Len(query.s) |-> i],
               values |-> [i \in 1..Len(query.s) |-> 1]])

\* The ranked points of the collection, best first.
Ranked(n) ==
  [i \in 1..n |-> [id |-> i, version |-> 0, score |-> 100 - i,
                   payload |-> [page |-> i], vector |-> None]]

Min(a, b) == IF a <= b THEN a ELSE b

\* client.search(...): an unreachable service raises; a negative limit is
\* rejected, limit = 0 is rejected or answered with no point; otherwise
\* the service returns the best min(hits, limit) points.
ClientSearch(cl, collection_name, sparse, limit) ==
  IF cl.fault # "ok" THEN Raise(Exc("ResponseHandlingException", MsgRefused))
  ELSE IF limit < 0 \/ (limit = 0 /\ cl.strict)
    THEN Raise(Exc("UnexpectedResponse", MsgBadLimit))
  ELSE Return(Ranked(Min(cl.hits, limit)))

TransformCall(query, outcome) ==
  [fn |-> "transform", query |-> query, outcome |-> outcome]
SearchCall(collection_name, sparse, limit, outcome) ==
  [fn |-> "client.search", collection_name |-> collection_name,
   query_vector |-> None, query_sparse_vector |-> sparse, limit |-> limit,
   with_payload |-> TRUE, with_vectors |-> FALSE, outcome |-> outcome]

\* search_tfidf that retries the database search once after a failure.
search_tfidf_retry(cl, collection_name, query, v, top_k) ==
  LET q_vec == Transform(v, query)
      results == ClientSearch(cl, collection_name, q_vec.val, top_k)
      first == SearchCall(collection_name, q_vec.val, top_k, results)
  IN IF ~q_vec.ok
     THEN [out |-> q_vec, calls |-> <<TransformCall(query, q_vec)>>]
     ELSE [out |-> results,
           calls |-> <<TransformCall(query, q_vec), first>>
                       \o (IF results.ok THEN <<>> ELSE <<first>>)]

\* search_tfidf that leaves `limit` to the client's default of 10.
search_tfidf_nolimit(cl, collection_name, query, v, top_k) ==
  LET q_vec == Transform(v, query)
      results == ClientSearch(cl, collection_name, q_vec.val, 10)
  IN IF ~q_vec.ok
     THEN [out |-> q_vec, calls |-> <<TransformCall(query, q_vec)>>]
     ELSE [out |-> results,
           calls |-> <<TransformCall(query, q_vec),
                       SearchCall(collection_name, q_vec.val, 10, results)>>]

\* Returns the outcome (results or the exception that propagates) and the
\* calls made on the way.
search_tfidf(cl, collection_name, query, v, top_k) ==
  LET q_vec == Transform(v, query)
      results == ClientSearch(cl, collection_name, q_vec.val, top_k)
  IN IF ~q_vec.ok
     THEN [out |-> q_vec, calls |-> <<TransformCall(query, q_vec)>>]
     ELSE [out |-> results,
           calls |-> <<TransformCall(query, q_vec),
                       SearchCall(collection_name, q_vec.val, top_k, results)>>]

(* ------------------------------ requests ------------------------------ *)
HttpResponse(status_code, body) ==
  [status_code |-> status_code, mimetype |-> "application/json",
   body |-> body]

Foo == <<"f", "o", "o">>
QueryParams == {None, Str(<<>>), Str(Foo)}
TopKParams ==
  {None, Str(<<"3">>), Str(<<"1">>), Str(<<"0">>), Str(<<"-", "2">>),
      Str(<<" ", "7", " ">>),
   Str(<<"1", "_", "0">>), Str(<<"a", "b", "c">>), Str(<<"2", ".", "5">>),
   Str(<<>>)}
QueryFields == {Absent, None, Str(<<>>), Str(Foo), IntV(0), IntV(7)}
TopKFields ==
  {Absent, None, Str(<<"3">>), Str(<<"a", "b", "c">>), IntV(3), IntV(0),
   IntV(0 - 1), FloatV(27), FloatV(0 - 15), NaN, Infinity, BoolV(TRUE),
   ListV(1), DictV(0)}

\* The request body as req.get_json() sees it: bytes that are not JSON, a
\* JSON object with its two keys, or another JSON value.
Body(k, query, top_k) == [k |-> k, query |-> query, top_k |-> top_k]
NoBody == Body("invalid", Absent, Absent)
Bodies ==
  {Body(k, Absent, Absent) : k \in {"invalid", "list", "NoneType", "str"}}
    \cup {Body("dict", q, t) : q \in QueryFields, t \in TopKFields}

SearchRequest(method, query, top_k, body) ==
  [route |-> "search", method |-> method,
   params |-> [query |-> query, top_k |-> top_k], body |-> body]
\* GET requests vary the URL parameters; POST requests vary the body, and
\* carry URL parameters of their own with some of the bodies.
SearchRequests ==
  {SearchRequest("GET", q, t, NoBody) : q \in QueryParams, t \in TopKParams}
    \cup {SearchRequest("GET", Str(<<>>), None, Body("dict", Str(Foo), IntV(3)))}
    \cup {SearchRequest("POST", None, None, b) : b \in Bodies}
    \cup {SearchRequest("POST", Str(Foo), Str(<<"3">>), b) :
            b \in {NoBody, Body("dict", Absent, Absent),
                   Body("list", Absent, Absent)}}

\* req.get_json()
get_json(r) ==
  IF r.body.k = "invalid"
  THEN Raise(Exc("ValueError", <<"H", "T", "T", "P", " ", "r", "e", "q",
      "u", "e", "s", "t", " ", "d", "o", "e", "s", " ", "n", "o", "t", " ",
      "c", "o", "n", "t", "a", "i", "n", " ", "v", "a", "l", "i", "d", " ",
      "J", "S", "O", "N", " ", "d", "a", "t", "a">>))
  ELSE Return(r.body)

\* The body parse without its except clause.
ParseBodyUncaught(r) == get_json(r)

\* try: body = req.get_json() / except ValueError: body = {}
ParseBody(r) ==
  LET j == get_json(r)
  IN IF j.ok THEN j
     ELSE IF j.exc.type = "ValueError" THEN Return(Body("dict", Absent, Absent))
     ELSE j

\* body.get(key)
BodyGet(body, key) ==
  IF body.k # "dict"
  THEN Raise(Exc("AttributeError", MsgNoGet(TypeName(body.k))))
  ELSE Return(IF body[key] = Absent THEN None ELSE body[key])

\* The (query, top_k) pair of lines 146-155, or the exception they raise.
ExtractArgs(r) ==
  IF r.method = "GET"
  THEN Return([query |-> r.params.query, top_k |-> r.params.top_k])
  ELSE LET body == ParseBody(r)
           query == BodyGet(body.val, "query")
           top_k == BodyGet(body.val, "top_k")
       IN IF ~body.ok THEN body
          ELSE IF ~query.ok THEN query
          ELSE IF ~top_k.ok THEN top_k
          ELSE Return([query |-> query.val, top_k |-> top_k.val])

\* top_k = int(top_k) if top_k is not None else 5, under
\* except (ValueError, TypeError): top_k = 5
CoerceTopK(top_k) ==
  LET k == PyInt(top_k)
  IN IF top_k = None THEN Return(DefaultTopK)
     ELSE IF k.ok THEN k
     ELSE IF k.exc.type \in {"ValueError", "TypeError"} THEN Return(DefaultTopK)
     ELSE k

\* The handler without its guard on a failed startup load.
NoVectorizerGuard(v) == FALSE

\* if vectorizer is None
VectorizerMissing(v) == v = None

\* `if query is None` in place of `if not query`.
QueryIsNone(query) == query = None

\* if not query
QueryMissing(query) == ~Truthy(query)

\* An outer handler that answers with a fixed text.
OuterExceptGeneric(e) ==
  HttpResponse(500, [error |-> <<"I", "n", "t", "e", "r", "n", "a", "l",
      " ", "S", "e", "r", "v", "e", "r", " ", "E", "r", "r", "o", "r">>])

\* except Exception as e: the 500 response carrying str(e)
OuterExcept(e) == HttpResponse(500, [error |-> StrOfExc(e)])

\* out.append({"id": r.id, "score": r.score, "payload": r.payload})
Reshape(results) ==
  [i \in 1..Len(results) |->
     [id |-> results[i].id, score |-> results[i].score,
      payload |-> results[i].payload]]

\* The 200 response of lines 188-199.
SearchOk(query, top_k, out) ==
  HttpResponse(200, [query |-> query, top_k |-> top_k, results |-> out])

\* The call of lines 169-175 as recorded in `calls`.
SearchTfidfCall(cl, collection_name, query, v, top_k) ==
  [fn |-> "search_tfidf", collection_name |-> collection_name,
   query |-> query, vectorizer |-> v, top_k |-> top_k]

\* The call without top_k=top_k: search_tfidf falls back on its default.
CallSearchDefaultTopK(cl, query, v, top_k) ==
  LET s == search_tfidf(cl, COLLECTION, query, v, DefaultTopK)
  IN [out |-> s.out,
      calls |-> <<SearchTfidfCall(cl, COLLECTION, query, v, DefaultTopK)>>
                  \o s.calls]

\* search_tfidf(client=client, collection_name=COLLECTION, query=query,
\*              vectorizer=vectorizer, top_k=top_k)
CallSearch(cl, query, v, top_k) ==
  LET s == search_tfidf(cl, COLLECTION, query, v, top_k)
  IN [out |-> s.out,
      calls |-> <<SearchTfidfCall(cl, COLLECTION, query, v, top_k)>>
                  \o s.calls]

\* The handler of /search: its response and the calls it made.
tfidf_search(v, cl, r) ==
  LET args == ExtractArgs(r)
      top_k == CoerceTopK(args.val.top_k)
      s == CallSearch(cl, args.val.query, v, top_k.val)
  IN IF VectorizerMissing(v)
     THEN [resp |-> HttpResponse(500, [error |-> MsgVectorizerNotLoaded]),
           calls |-> <<>>]
     ELSE IF ~args.ok THEN [resp |-> OuterExcept(args.exc), calls |-> <<>>]
     ELSE IF QueryMissing(args.val.query)
       THEN [resp |-> HttpResponse(400, [error |-> MsgMissingQuery]),
             calls |-> <<>>]
     ELSE IF ~top_k.ok THEN [resp |-> OuterExcept(top_k.exc), calls |-> <<>>]
     ELSE IF ~s.out.ok THEN [resp |-> OuterExcept(s.out.exc), calls |-> s.calls]
     ELSE [resp |-> SearchOk(args.val.query, top_k.val, Reshape(s.out.val)),
           calls |-> s.calls]

(* ------------------------------- health ------------------------------- *)
\* client.get_collections()
get_collections(cl) ==
  IF cl.fault # "ok" THEN Raise(Exc("ResponseHandlingException", MsgRefused))
  ELSE Return(<<COLLECTION>>)

\* The status text without the "error: " prefix.
QdrantStatusBare(outcome) ==
  IF outcome.ok THEN Connected ELSE StrOfExc(outcome.exc)

\* qdrant_status after the try/except of lines 106-111.
QdrantStatus(outcome) ==
  IF outcome.ok THEN Connected ELSE ErrorPrefix \o StrOfExc(outcome.exc)

root_health ==
  HttpResponse(200, [status |-> "ok", service |-> "sauco-tfidf-function",
                     message |-> "Azure Function is running"])

detailed_health(v, cl) ==
  LET outcome == get_collections(cl)
  IN [resp |-> HttpResponse(200,
                 [status |-> "ok", qdrant |-> QdrantStatus(outcome),
                  qdrant_url |-> QDRANT_URL, collection |-> COLLECTION,
                  vectorizer_loaded |-> v # None]),
      calls |-> <<[fn |-> "get_collections", outcome |-> outcome]>>]

(* ---------------------------- state machine --------------------------- *)
NoRequest == [route |-> "none"]
NoResponse == [status_code |-> 0]

\* Cold start: the vectorizer load fails (vectorizer = None) or succeeds,
\* the client handle is built; no request has been served.
Init ==
  /\ \/ vectorizer = None
     \/ vectorizer \in Vectorizers \ {None}
  /\ client \in ClientStates
  /\ req = NoRequest
  /\ resp = NoResponse
  /\ calls = <<>>

RootHealth ==
  /\ req' = [route |-> "", method |-> "GET"]
  /\ resp' = root_health
  /\ calls' = <<>>
  /\ UNCHANGED <<vectorizer, client>>

DetailedHealth ==
  \E h \in {detailed_health(vectorizer, client)} :
    /\ req' = [route |-> "health", method |-> "GET"]
    /\ resp' = h.resp
    /\ calls' = h.calls
      /\ UNCHANGED <<vectorizer, client>>

TfidfSearch ==
  \E r \in SearchRequests :
    \E h \in {tfidf_search(vectorizer, client, r)} :
      /\ req' = r
      /\ resp' = h.resp
      /\ calls' = h.calls
          /\ UNCHANGED <<vectorizer, client>>

\* Between two requests the Qdrant service changes behind the handle (goes
\* down, comes back, is re-indexed); the handle itself is never rebuilt.
\* req, resp and calls describe an exchange for as long as the service it
\* ran against is unchanged.
QdrantChanges ==
  /\ client' \in ClientStates \ {client}
  /\ req' = NoRequest
  /\ resp' = NoResponse
  /\ calls' = <<>>
  /\ UNCHANGED vectorizer

Next == RootHealth \/ DetailedHealth \/ TfidfSearch \/ QdrantChanges

Spec == Init /\ [][Next]_vars

(* ------------------------- request vocabulary ------------------------- *)
\* The query and top_k a request carries: URL parameters for GET, the keys
\* of a JSON object body for POST; None when there is none.
QueryOf(r) ==
  IF r.method = "GET" THEN r.params.query
  ELSE IF r.body.k = "dict" /\ r.body.query # Absent THEN r.body.query
  ELSE None
TopKOf(r) ==
  IF r.method = "GET" THEN r.params.top_k
  ELSE IF r.body.k = "dict" /\ r.body.top_k # Absent THEN r.body.top_k
  ELSE None
\* The same request with top_k left out.
WithoutTopK(r) ==
  IF r.method = "GET" THEN [r EXCEPT !.params.top_k = None]
  ELSE [r EXCEPT !.body.top_k = Absent]

IsSearch == req.route = "search"
QueryEmptyOrAbsent == QueryOf(req) \in {None, Str(<<>>)}
QueryNonEmptyString == QueryOf(req).t = "str" /\ QueryOf(req).s # <<>>
TopKUnparsable == TopKOf(req) # None /\ ~PyInt(TopKOf(req)).ok
HasError == "error" \in DOMAIN resp.body

CallsTo(fn) == SelectSeq(calls, LAMBDA c : c.fn = fn)
\* The calls of the last request that raised, transform or client.search.
RaisedCalls ==
  SelectSeq(calls, LAMBDA c :
    c.fn \in {"transform", "client.search"} /\ ~c.outcome.ok)
SearchReturned == Len(CallsTo("search_tfidf")) > 0 /\ Len(RaisedCalls) = 0

(* ------------------------------- claims ------------------------------- *)

\* C1 (as stated): every /search request with a non-empty string query gets
\* HTTP 200 and at most top_k results, whatever the state of the database.
C1_AlwaysOk ==
  (IsSearch /\ QueryNonEmptyString) =>
    /\ resp.status_code = 200
    /\ Len(resp.body.results) <= resp.body.top_k

\* C1 (amended): with the vectorizer loaded and a non-empty string query, a
\* search_tfidf call that returns gives HTTP 200 with one record per point
\* returned and at most the echoed effective top_k of them; a transform or
\* database search that raises gives HTTP 500.
C1_OkWhenSearchReturns ==
  (IsSearch /\ QueryNonEmptyString /\ vectorizer # None) =>
    /\ SearchReturned =>
         /\ resp.status_code = 200
         /\ Len(resp.body.results) <= resp.body.top_k
         /\ Len(resp.body.results) = Len(calls[Len(calls)].outcome.val)
    /\ Len(RaisedCalls) > 0 => resp.status_code = 500

\* The limit cut the result list: more points match than top_k allows.
C1_Witness ==
  /\ IsSearch /\ QueryNonEmptyString /\ vectorizer # None
  /\ resp.status_code = 200
  /\ resp.body.top_k >= 1
  /\ Len(resp.body.results) = resp.body.top_k
  /\ client.hits > resp.body.top_k

C3_FailsClosed ==
  (IsSearch /\ vectorizer = None) =>
    /\ resp.status_code = 500
    /\ HasError
    /\ Contains(Lower(resp.body.error), <<"v", "e", "c", "t", "o", "r",
        "i", "z", "e", "r">>)

\* A POST with a body that is not an object met a missing vectorizer.
C3_Witness ==
  /\ IsSearch /\ vectorizer = None
  /\ req.method = "POST" /\ req.body.k = "list"
  /\ resp.status_code = 500

\* C4 (as stated): a non-empty query with a top_k that int() cannot parse
\* is handled exactly like the same request without top_k: same response,
\* same calls, effective top_k 5 when a search was made.
C4_UnparsableIsDefault ==
  (IsSearch /\ Truthy(QueryOf(req)) /\ TopKUnparsable) =>
    /\ resp = tfidf_search(vectorizer, client, WithoutTopK(req)).resp
    /\ calls = tfidf_search(vectorizer, client, WithoutTopK(req)).calls
    /\ \A i \in 1..Len(calls) :
         calls[i].fn = "search_tfidf" => calls[i].top_k = DefaultTopK

\* C5: /health answers HTTP 200 whatever get_collections does: "connected"
\* when it returns, "error: " followed by the exception text when it raises.
C5_HealthAlwaysOk ==
  (req.route = "health") =>
    /\ resp.status_code = 200
    /\ Len(calls) = 1 /\ calls[1].fn = "get_collections"
    /\ calls[1].outcome.ok => resp.body.qdrant = Connected
    /\ ~calls[1].outcome.ok =>
         /\ StartsWith(resp.body.qdrant, ErrorPrefix)
         /\ SubSeq(resp.body.qdrant, Len(ErrorPrefix) + 1,
                   Len(resp.body.qdrant)) = calls[1].outcome.exc.msg

\* /health was asked while Qdrant refused connections.
C5_Witness ==
  /\ req.route = "health"
  /\ client.fault = "refused"
  /\ ~calls[1].outcome.ok
  /\ resp.status_code = 200

\* C6: in a 200 response of /search the echoed query and top_k are the
\* arguments of the request's search_tfidf call, the query being the one
\* the request carries and top_k the limit given to the database.
C6_EchoIsUsed ==
  (IsSearch /\ resp.status_code = 200) =>
    /\ Len(calls) = 3
    /\ calls[1].fn = "search_tfidf"
    /\ resp.body.query = calls[1].query
    /\ resp.body.top_k = calls[1].top_k
    /\ resp.body.query = QueryOf(req)
    /\ calls[3].fn = "client.search" /\ calls[3].limit = resp.body.top_k

\* A 200 response echoes a top_k parsed from the text "3", not the default.
C6_Witness ==
  /\ IsSearch /\ resp.status_code = 200
  /\ TopKOf(req) = Str(<<"3">>)
  /\ resp.body.top_k = 3
  /\ resp.body.query = Str(Foo)

\* C7 (as stated): a POST whose body is not valid JSON gets the
\* missing-query HTTP 400, URL parameters notwithstanding, never a 500.
C7_InvalidBodyIs400 ==
  (IsSearch /\ req.method = "POST" /\ req.body.k = "invalid") =>
    (resp.status_code = 400 /\ resp.body = [error |-> MsgMissingQuery])

\* C7 (amended): when the vectorizer is loaded, a POST whose body is not
\* valid JSON gets the missing-query HTTP 400, URL parameters
\* notwithstanding.
C7_InvalidBodyIs400WhenLoaded ==
  (/\ IsSearch /\ req.method = "POST" /\ req.body.k = "invalid"
   /\ vectorizer # None) =>
    (resp.status_code = 400 /\ resp.body = [error |-> MsgMissingQuery])

\* A POST with an invalid body and ?query=foo in the URL was answered 400.
C7_Witness ==
  /\ IsSearch /\ req.method = "POST" /\ req.body.k = "invalid"
  /\ req.params.query = Str(Foo)
  /\ vectorizer # None
  /\ resp.status_code = 400

\* C8 (as stated): the top_k given to search_tfidf and echoed in the
\* response is always at least 1.
C8_TopKPositive ==
  IsSearch =>
    /\ \A i \in 1..Len(calls) :
         /\ calls[i].fn = "search_tfidf" => calls[i].top_k >= 1
         /\ calls[i].fn = "client.search" => calls[i].limit >= 1
    /\ resp.status_code = 200 => resp.body.top_k >= 1

\* C9: with the vectorizer loaded, an exception of the transform or of the
\* database search ends the request with HTTP 500 and the body
\* {error: str(e)}: no results, nothing escaping.
C9_ExceptionIs500 ==
  (IsSearch /\ vectorizer # None /\ Len(RaisedCalls) > 0) =>
    /\ resp.status_code = 500
    /\ resp.body = [error |-> RaisedCalls[1].outcome.exc.msg]

\* The database search raised while the transform had succeeded.
C9_Witness ==
  /\ IsSearch /\ vectorizer # None
  /\ Len(calls) = 3 /\ ~calls[3].outcome.ok /\ calls[2].outcome.ok
  /\ resp.status_code = 500

\* C10: a /search request issues the database search at most once, and
\* not at all when the vectorizer is absent or the query is missing or
\* empty; search_tfidf only ever gets a vectorizer and a non-empty query.
C10_SearchAtMostOnce ==
  IsSearch =>
    /\ Len(CallsTo("client.search")) <= 1
    /\ Len(CallsTo("search_tfidf")) <= 1
    /\ (vectorizer = None \/ QueryEmptyOrAbsent) => calls = <<>>
    /\ \A i \in 1..Len(calls) :
         calls[i].fn = "search_tfidf" =>
           (calls[i].vectorizer # None /\ Truthy(calls[i].query))

\* A database search failed and was not tried again.
C10_Witness ==
  /\ IsSearch
  /\ Len(CallsTo("client.search")) = 1
  /\ ~CallsTo("client.search")[1].outcome.ok
  /\ resp.status_code = 500

=============================================================================
